---- MODULE Spec2Model ----
(***************************************************************************)
(* One time-step of a GRU cell: GRUUnitKernel::Compute (forward) and       *)
(* GRUUnitGradKernel::Compute (backward) of paddle/operators/gru_unit_op.h *)
(* Tensors are flat row-major buffers, modelled as functions over 0..n-1   *)
(* so that the index arithmetic of the source is kept literally.  Values   *)
(* are integers (exactly representable in T = float/double).               *)
(***************************************************************************)
EXTENDS Integers, Sequences, FiniteSets, TLC

(* enum GRUActivationType *)
identity == 0
sigmoid == 1
tanh == 2
relu == 3

(* Bounds of the explored input space. *)
MaxBatch == 2
MaxFrame == 2
MaxSeed == 2
BadTag == 4

(* Possible contents of freshly allocated (mutable_data) memory. *)
Garbage == {7, -5}

Tags == {identity, sigmoid, tanh, relu, BadTag}

VARIABLES batch_size, frame_size,
          gate_activation, activation,      \* attributes of the kernel running
          Input, HiddenPrev, Weight, Bias,  \* caller-owned inputs
          Gate, ResetHiddenPrev, Hidden,    \* forward outputs
          dHidden,                          \* Hidden@GRAD
          dInput, dHiddenPrev, dWeight, dBias,  \* backward outputs
          dGate, dResetHiddenPrev,          \* backward working buffers
          fill,                             \* what uninitialised memory held
          writes,                           \* number of writes per backward region
          kernel,                           \* "forward" or "backward"
          pc

vars == <<batch_size, frame_size, gate_activation, activation,
          Input, HiddenPrev, Weight, Bias, Gate, ResetHiddenPrev, Hidden,
          dHidden, dInput, dHiddenPrev, dWeight, dBias, dGate,
          dResetHiddenPrev, fill, writes, kernel, pc>>

fwdOut == <<Gate, ResetHiddenPrev, Hidden>>
bwdOut == <<dInput, dHiddenPrev, dWeight, dBias, dGate, dResetHiddenPrev>>
inputs == <<batch_size, frame_size, Input, HiddenPrev, Weight, Bias, fill>>

----------------------------------------------------------------------------
(* Buffers *)

Fill(n, v) == [p \in 0..(n - 1) |-> v]

RECURSIVE SumTo(_, _)
SumTo(t, n) == IF n = 0 THEN 0 ELSE t[n - 1] + SumTo(t, n - 1)

(* Input tensors of the explored space, one family per tensor. *)
InputOf(s, n) == [p \in 0..(n - 1) |-> ((p + s) % 3) - 1]
HiddenPrevOf(s, n) == [p \in 0..(n - 1) |-> ((2 * p + s + 1) % 3) - 1]
WeightOf(s, n) == [p \in 0..(n - 1) |-> ((p * p + s) % 5) - 2]
BiasOf(s, n) == [p \in 0..(n - 1) |-> ((p + 2 * s) % 3) - 1]
HiddenGradOf(s, n) == [p \in 0..(n - 1) |-> ((p + s) % 3) - 1]

----------------------------------------------------------------------------
(* Collaborators: the activation functors and the dense matrix multiply.  *)

(* Integer-valued activations: the real function rounded to the nearest   *)
(* integer (halves away from zero).                                        *)
SigmoidFunctor(x) == IF x >= 0 THEN 1 ELSE 0
TanhFunctor(x) == IF x > 0 THEN 1 ELSE IF x < 0 THEN -1 ELSE 0
ReluFunctor(x) == IF x > 0 THEN x ELSE 0

SigmoidGradFunctor(y, dy) == dy * y * (1 - y)
TanhGradFunctor(y, dy) == dy * (1 - y * y)
ReluGradFunctor(y, dy) == IF y > 0 THEN dy ELSE 0

(* C := alpha * op(A) * op(B) + beta * C on row-major buffers; aoff, boff *)
(* and coff are the offsets added to the data pointers by the caller.     *)
gemm(transA, transB, M, N, K, alpha, A, aoff, lda, B, boff, ldb, beta, C, coff, ldc) ==
    [p \in DOMAIN C |->
        LET i == (p - coff) \div ldc
            j == (p - coff) % ldc
            a(k) == IF transA THEN A[aoff + k * lda + i] ELSE A[aoff + i * lda + k]
            b(k) == IF transB THEN B[boff + j * ldb + k] ELSE B[boff + k * ldb + j]
        IN  IF p >= coff /\ i < M /\ j < N
            THEN alpha * SumTo([k \in 0..(K - 1) |-> a(k) * b(k)], K)
                 + (IF beta = 0 THEN 0 ELSE beta * C[p])
            ELSE C[p]]

----------------------------------------------------------------------------
(* GRUUnitKernel *)

(* g.slice({0, off}, {batch_size, frame_size}) of a batch x 3*frame buffer *)
InSlice(f, off, p) == (p % (3 * f)) >= off /\ (p % (3 * f)) < off + f

(* The slot of h_p / r_h_p / h that lines up with slot p of a slice. *)
Narrow(f, p) == (p \div (3 * f)) * f + (p % f)

(* ActCompute over a slice, in place (x and y are the same slice). *)
ActComputeDefault(act_type, g, f, off) ==
    [thrown |-> FALSE,
     y |-> [p \in DOMAIN g |->
              IF ~InSlice(f, off, p) THEN g[p]
              ELSE IF act_type = sigmoid THEN SigmoidFunctor(g[p])
              ELSE IF act_type = tanh THEN TanhFunctor(g[p])
              ELSE IF act_type = relu THEN ReluFunctor(g[p])
              ELSE g[p]]]

ActCompute(act_type, g, f, off) ==
    IF act_type \in {identity, sigmoid, tanh, relu}
    THEN [thrown |-> FALSE,
          y |-> [p \in DOMAIN g |->
                   IF ~InSlice(f, off, p) THEN g[p]
                   ELSE IF act_type = identity THEN g[p]
                   ELSE IF act_type = sigmoid THEN SigmoidFunctor(g[p])
                   ELSE IF act_type = tanh THEN TanhFunctor(g[p])
                   ELSE ReluFunctor(g[p])]]
    ELSE [thrown |-> TRUE, y |-> g]

(* g = x + b.reshape({1, 3f}).broadcast({batch, 1}) *)
FwdAddBias(b, f, x, bias, g) ==
    [p \in DOMAIN g |-> x[p] + bias[p % (3 * f)]]

FwdGemmURRowMajor(b, f, hp, w, g) ==
    gemm(FALSE, FALSE, b, 2 * f, f, 1, hp, 0, f, w, 0, 3 * f, 1, g, 0, 3 * f)

FwdGemmUR(b, f, hp, w, g) ==
    gemm(FALSE, FALSE, b, 2 * f, f, 1, hp, 0, f, w, 0, f * 2, 1, g, 0, f * 3)

FwdActU(ga, a, f, g) == ActCompute(ga, g, f, 0)

FwdActR(ga, a, f, g) == ActCompute(ga, g, f, f)

FwdResetHiddenEarly(b, f, g, hp, rhp) ==
    [p \in DOMAIN rhp |-> hp[p]]

(* r_h_p = r * h_p *)
FwdResetHidden(b, f, g, hp, rhp) ==
    [p \in DOMAIN rhp |-> g[(p \div f) * 3 * f + f + (p % f)] * hp[p]]

FwdGemmC(b, f, rhp, w, g) ==
    gemm(FALSE, FALSE, b, f, f, 1, rhp, 0, f, w, f * f * 2, f, 1, g, f * 2, f * 3)

FwdActCGateTag(ga, a, f, g) == ActCompute(ga, g, f, 2 * f)

FwdActC(ga, a, f, g) == ActCompute(a, g, f, 2 * f)

FwdHiddenNoCarry(b, f, g, hp, h) ==
    [p \in DOMAIN h |->
        LET u == g[(p \div f) * 3 * f + (p % f)]
            c == g[(p \div f) * 3 * f + 2 * f + (p % f)]
        IN  u * (hp[p] - c)]

(* h = u * (h_p - c) + c *)
FwdHidden(b, f, g, hp, h) ==
    [p \in DOMAIN h |->
        LET u == g[(p \div f) * 3 * f + (p % f)]
            c == g[(p \div f) * 3 * f + 2 * f + (p % f)]
        IN  u * (hp[p] - c) + c]

(* The whole of Compute for supported tags, from given buffer contents. *)
ForwardRun(b, f, ga, a, x, hp, w, bias, g0, rhp0, h0) ==
    LET g1 == FwdAddBias(b, f, x, bias, g0)
        g2 == FwdGemmUR(b, f, hp, w, g1)
        g3 == FwdActU(ga, a, f, g2).y
        g4 == FwdActR(ga, a, f, g3).y
        rhp == FwdResetHidden(b, f, g4, hp, rhp0)
        g5 == FwdGemmC(b, f, rhp, w, g4)
        g6 == FwdActC(ga, a, f, g5).y
    IN  [Gate |-> g6, ResetHiddenPrev |-> rhp, Hidden |-> FwdHidden(b, f, g6, hp, h0)]

----------------------------------------------------------------------------
(* GRUUnitGradKernel *)

(* ActGradCompute writes dx = act_grad(y, dy) into a slice of d_g; y is   *)
(* the same slice of g (x is a dummy), dy is given per slot of d_g.       *)
ActGradCompute(act_type, g, dy, dg, f, off) ==
    IF act_type \in {identity, sigmoid, tanh, relu}
    THEN [thrown |-> FALSE,
          dx |-> [p \in DOMAIN dg |->
                    IF ~InSlice(f, off, p) THEN dg[p]
                    ELSE IF act_type = identity THEN dy[p]
                    ELSE IF act_type = sigmoid THEN SigmoidGradFunctor(g[p], dy[p])
                    ELSE IF act_type = tanh THEN TanhGradFunctor(g[p], dy[p])
                    ELSE ReluGradFunctor(g[p], dy[p])]]
    ELSE [thrown |-> TRUE, dx |-> dg]

(* backward for unactivated update gate: dy = d_h * (h_p - c) *)
BwdActGradU(ga, a, f, g, hp, dh, dg) ==
    ActGradCompute(ga, g,
        [p \in DOMAIN dg |->
            IF InSlice(f, 0, p)
            THEN dh[Narrow(f, p)] * (hp[Narrow(f, p)] - g[p + 2 * f]) ELSE 0],
        dg, f, 0)

(* backward for unactivated output candidate: dy = d_h * (1 - u) *)
BwdActGradC(ga, a, f, g, dh, dg) ==
    ActGradCompute(a, g,
        [p \in DOMAIN dg |->
            IF InSlice(f, 2 * f, p)
            THEN dh[Narrow(f, p)] * (1 - g[p - 2 * f]) ELSE 0],
        dg, f, 2 * f)

(* backward for reset_hidden_prev *)
BwdGemmRHP(b, f, dg, w, drhp) ==
    gemm(FALSE, TRUE, b, f, f, 1, dg, f * 2, f * 3, w, f * f * 2, f, 0, drhp, 0, f)

BwdGemmWCAccumulate(b, f, rhp, dg, dw) ==
    gemm(TRUE, FALSE, f, f, b, 1, rhp, 0, f, dg, f * 2, f * 3, 1, dw, f * f * 2, f)

(* backward for state_weight *)
BwdGemmWC(b, f, rhp, dg, dw) ==
    gemm(TRUE, FALSE, f, f, b, 1, rhp, 0, f, dg, f * 2, f * 3, 0, dw, f * f * 2, f)

(* backward for unactivated reset gate: dy = d_r_h_p * h_p *)
BwdActGradR(ga, a, f, g, hp, drhp, dg) ==
    ActGradCompute(ga, g,
        [p \in DOMAIN dg |->
            IF InSlice(f, f, p)
            THEN drhp[Narrow(f, p)] * hp[Narrow(f, p)] ELSE 0],
        dg, f, f)

BwdGemmWURUpdateOnly(b, f, hp, dg, dw) ==
    gemm(TRUE, FALSE, f, f, b, 1, hp, 0, f, dg, 0, f * 3, 0, dw, 0, f * 2)

(* backward for update_gate_weight and reset_gate_weight *)
BwdGemmWUR(b, f, hp, dg, dw) ==
    gemm(TRUE, FALSE, f, f * 2, b, 1, hp, 0, f, dg, 0, f * 3, 0, dw, 0, f * 2)

(* d_h_p = d_r_h_p * r + d_h * u *)
BwdHiddenPrev(b, f, g, drhp, dh, dhp) ==
    [p \in DOMAIN dhp |->
        LET u == g[(p \div f) * 3 * f + (p % f)]
            r == g[(p \div f) * 3 * f + f + (p % f)]
        IN  drhp[p] * r + dh[p] * u]

BwdGemmHPUpdateOnly(b, f, dg, w, dhp) ==
    gemm(FALSE, TRUE, b, f, f, 1, dg, 0, f * 3, w, 0, f * 2, 1, dhp, 0, f)

BwdGemmHP(b, f, dg, w, dhp) ==
    gemm(FALSE, TRUE, b, f, f * 2, 1, dg, 0, f * 3, w, 0, f * 2, 1, dhp, 0, f)

(* d_x = d_g *)
BwdInput(b, f, dg, dx) == [p \in DOMAIN dx |-> dg[p]]

BwdBiasFirstRow(b, f, dg, db) == [j \in DOMAIN db |-> dg[j]]

(* d_b = d_g.sum({0}) *)
BwdBias(b, f, dg, db) ==
    [j \in DOMAIN db |-> SumTo([i \in 0..(b - 1) |-> dg[i * 3 * f + j]], b)]

(* The whole of Compute for supported tags, from given buffer contents. *)
BackwardRun(b, f, ga, a, hp, w, g, rhp, dh, dx0, dhp0, dw0, db0, dg0, drhp0) ==
    LET dg1 == BwdActGradU(ga, a, f, g, hp, dh, dg0).dx
        dg2 == BwdActGradC(ga, a, f, g, dh, dg1).dx
        drhp == BwdGemmRHP(b, f, dg2, w, drhp0)
        dw1 == BwdGemmWC(b, f, rhp, dg2, dw0)
        dg3 == BwdActGradR(ga, a, f, g, hp, drhp, dg2).dx
        dw2 == BwdGemmWUR(b, f, hp, dg3, dw1)
        dhp1 == BwdHiddenPrev(b, f, g, drhp, dh, dhp0)
        dhp2 == BwdGemmHP(b, f, dg3, w, dhp1)
    IN  [dInput |-> BwdInput(b, f, dg3, dx0), dHiddenPrev |-> dhp2, dWeight |-> dw2,
         dBias |-> BwdBias(b, f, dg3, db0), dGate |-> dg3, dResetHiddenPrev |-> drhp]

Regions == {"dGate_u", "dGate_r", "dGate_c", "dResetHiddenPrev", "dWeight_c",
            "dWeight_ur", "dHiddenPrev", "dInput", "dBias"}

BwdOrderResetFirst ==
    <<"b_act_u", "b_act_c", "b_act_r", "b_gemm_rhp", "b_gemm_wc", "b_gemm_wur",
      "b_hidden_prev", "b_gemm_hp", "b_input", "b_bias", "bwd_done">>

(* The statements of Compute in program order. *)
BwdOrder ==
    <<"b_act_u", "b_act_c", "b_gemm_rhp", "b_gemm_wc", "b_act_r", "b_gemm_wur",
      "b_hidden_prev", "b_gemm_hp", "b_input", "b_bias", "bwd_done">>

BwdAfter(at) ==
    LET n == CHOOSE n \in 1..(Len(BwdOrder) - 1) : BwdOrder[n] = at
    IN  BwdOrder[n + 1]

Wrote(r) == [writes EXCEPT ![r] = @ + 1]

----------------------------------------------------------------------------

Init ==
    /\ batch_size \in 1..MaxBatch
    /\ frame_size \in 1..MaxFrame
    /\ gate_activation \in Tags
    /\ activation \in Tags
    /\ fill \in Garbage
    /\ \E s \in 0..MaxSeed :
          /\ Input = InputOf(s, batch_size * 3 * frame_size)
          /\ HiddenPrev = HiddenPrevOf(s, batch_size * frame_size)
          /\ Weight = WeightOf(s, frame_size * 3 * frame_size)
          /\ Bias = BiasOf(s, 3 * frame_size)
    /\ Gate = Fill(batch_size * 3 * frame_size, fill)
    /\ ResetHiddenPrev = Fill(batch_size * frame_size, fill)
    /\ Hidden = Fill(batch_size * frame_size, fill)
    /\ dHidden = Fill(batch_size * frame_size, 0)
    /\ dInput = Fill(batch_size * 3 * frame_size, fill)
    /\ dHiddenPrev = Fill(batch_size * frame_size, fill)
    /\ dWeight = Fill(frame_size * 3 * frame_size, fill)
    /\ dBias = Fill(3 * frame_size, fill)
    /\ dGate = Fill(batch_size * 3 * frame_size, fill)
    /\ dResetHiddenPrev = Fill(batch_size * frame_size, fill)
    /\ writes = [r \in Regions |-> 0]
    /\ kernel = "forward"
    /\ pc = "f_add_bias"

F_AddBias ==
    /\ pc = "f_add_bias"
    /\ Gate' = FwdAddBias(batch_size, frame_size, Input, Bias, Gate)
    /\ pc' = "f_gemm_ur"
    /\ UNCHANGED <<inputs, gate_activation, activation, ResetHiddenPrev, Hidden,
                   dHidden, bwdOut, writes, kernel>>

F_GemmUR ==
    /\ pc = "f_gemm_ur"
    /\ Gate' = FwdGemmUR(batch_size, frame_size, HiddenPrev, Weight, Gate)
    /\ pc' = "f_act_u"
    /\ UNCHANGED <<inputs, gate_activation, activation, ResetHiddenPrev, Hidden,
                   dHidden, bwdOut, writes, kernel>>

(* An ActCompute call: the slice is rewritten, or PADDLE_THROW unwinds. *)
FwdAct(at, res, next) ==
    /\ pc = at
    /\ IF res.thrown
       THEN pc' = "error" /\ UNCHANGED Gate
       ELSE pc' = next /\ Gate' = res.y
    /\ UNCHANGED <<inputs, gate_activation, activation, ResetHiddenPrev, Hidden,
                   dHidden, bwdOut, writes, kernel>>

F_ActU == FwdAct("f_act_u", FwdActU(gate_activation, activation, frame_size, Gate), "f_act_r")

F_ActR == FwdAct("f_act_r", FwdActR(gate_activation, activation, frame_size, Gate), "f_reset_hidden")

F_ResetHidden ==
    /\ pc = "f_reset_hidden"
    /\ ResetHiddenPrev' = FwdResetHidden(batch_size, frame_size, Gate, HiddenPrev,
                                          ResetHiddenPrev)
    /\ pc' = "f_gemm_c"
    /\ UNCHANGED <<inputs, gate_activation, activation, Gate, Hidden,
                   dHidden, bwdOut, writes, kernel>>

F_GemmC ==
    /\ pc = "f_gemm_c"
    /\ Gate' = FwdGemmC(batch_size, frame_size, ResetHiddenPrev, Weight, Gate)
    /\ pc' = "f_act_c"
    /\ UNCHANGED <<inputs, gate_activation, activation, ResetHiddenPrev, Hidden,
                   dHidden, bwdOut, writes, kernel>>

F_ActC == FwdAct("f_act_c", FwdActC(gate_activation, activation, frame_size, Gate), "f_hidden")

F_Hidden ==
    /\ pc = "f_hidden"
    /\ Hidden' = FwdHidden(batch_size, frame_size, Gate, HiddenPrev, Hidden)
    /\ pc' = "fwd_done"
    /\ UNCHANGED <<inputs, gate_activation, activation, Gate, ResetHiddenPrev,
                   dHidden, bwdOut, writes, kernel>>

Forward == F_AddBias \/ F_GemmUR \/ F_ActU \/ F_ActR \/ F_ResetHidden
           \/ F_GemmC \/ F_ActC \/ F_Hidden

(* The grad op runs on the outputs of a completed forward op; its two    *)
(* attributes are its own and are those of the forward op unless the     *)
(* grad op is misconfigured.                                              *)
B_Start ==
    /\ pc = "fwd_done"
    /\ kernel' = "backward"
    /\ dHidden' \in {Fill(batch_size * frame_size, 1)}
                   \cup {HiddenGradOf(s, batch_size * frame_size) : s \in 0..MaxSeed}
    /\ \E cfg \in {"same", "bad_gate", "bad_act"} :
          /\ gate_activation' = IF cfg = "bad_gate" THEN BadTag ELSE gate_activation
          /\ activation' = IF cfg = "bad_act" THEN BadTag ELSE activation
    /\ pc' = BwdOrder[1]
    /\ UNCHANGED <<inputs, fwdOut, bwdOut, writes>>

BwdActGrad(at, res, region) ==
    /\ pc = at
    /\ IF res.thrown
       THEN pc' = "error" /\ UNCHANGED <<dGate, writes>>
       ELSE pc' = BwdAfter(at) /\ dGate' = res.dx /\ writes' = Wrote(region)
    /\ UNCHANGED <<inputs, gate_activation, activation, fwdOut, dHidden, dInput,
                   dHiddenPrev, dWeight, dBias, dResetHiddenPrev, kernel>>

B_ActGradU ==
    BwdActGrad("b_act_u",
               BwdActGradU(gate_activation, activation, frame_size, Gate,
                           HiddenPrev, dHidden, dGate),
               "dGate_u")

B_ActGradC ==
    BwdActGrad("b_act_c",
               BwdActGradC(gate_activation, activation, frame_size, Gate,
                           dHidden, dGate),
               "dGate_c")

B_GemmRHP ==
    /\ pc = "b_gemm_rhp"
    /\ dResetHiddenPrev' = BwdGemmRHP(batch_size, frame_size, dGate, Weight,
                                      dResetHiddenPrev)
    /\ writes' = Wrote("dResetHiddenPrev")
    /\ pc' = BwdAfter("b_gemm_rhp")
    /\ UNCHANGED <<inputs, gate_activation, activation, fwdOut, dHidden, dInput,
                   dHiddenPrev, dWeight, dBias, dGate, kernel>>

B_GemmWC ==
    /\ pc = "b_gemm_wc"
    /\ dWeight' = BwdGemmWC(batch_size, frame_size, ResetHiddenPrev, dGate, dWeight)
    /\ writes' = Wrote("dWeight_c")
    /\ pc' = BwdAfter("b_gemm_wc")
    /\ UNCHANGED <<inputs, gate_activation, activation, fwdOut, dHidden, dInput,
                   dHiddenPrev, dBias, dGate, dResetHiddenPrev, kernel>>

B_ActGradR ==
    BwdActGrad("b_act_r",
               BwdActGradR(gate_activation, activation, frame_size, Gate,
                           HiddenPrev, dResetHiddenPrev, dGate),
               "dGate_r")

B_GemmWUR ==
    /\ pc = "b_gemm_wur"
    /\ dWeight' = BwdGemmWUR(batch_size, frame_size, HiddenPrev, dGate, dWeight)
    /\ writes' = Wrote("dWeight_ur")
    /\ pc' = BwdAfter("b_gemm_wur")
    /\ UNCHANGED <<inputs, gate_activation, activation, fwdOut, dHidden, dInput,
                   dHiddenPrev, dBias, dGate, dResetHiddenPrev, kernel>>

B_HiddenPrev ==
    /\ pc = "b_hidden_prev"
    /\ dHiddenPrev' = BwdHiddenPrev(batch_size, frame_size, Gate,
                                    dResetHiddenPrev, dHidden, dHiddenPrev)
    /\ writes' = Wrote("dHiddenPrev")
    /\ pc' = BwdAfter("b_hidden_prev")
    /\ UNCHANGED <<inputs, gate_activation, activation, fwdOut, dHidden, dInput,
                   dWeight, dBias, dGate, dResetHiddenPrev, kernel>>

B_GemmHP ==
    /\ pc = "b_gemm_hp"
    /\ dHiddenPrev' = BwdGemmHP(batch_size, frame_size, dGate, Weight, dHiddenPrev)
    /\ writes' = Wrote("dHiddenPrev")
    /\ pc' = BwdAfter("b_gemm_hp")
    /\ UNCHANGED <<inputs, gate_activation, activation, fwdOut, dHidden, dInput,
                   dWeight, dBias, dGate, dResetHiddenPrev, kernel>>

B_Input ==
    /\ pc = "b_input"
    /\ dInput' = BwdInput(batch_size, frame_size, dGate, dInput)
    /\ writes' = Wrote("dInput")
    /\ pc' = BwdAfter("b_input")
    /\ UNCHANGED <<inputs, gate_activation, activation, fwdOut, dHidden,
                   dHiddenPrev, dWeight, dBias, dGate, dResetHiddenPrev, kernel>>

B_Bias ==
    /\ pc = "b_bias"
    /\ dBias' = BwdBias(batch_size, frame_size, dGate, dBias)
    /\ writes' = Wrote("dBias")
    /\ pc' = BwdAfter("b_bias")
    /\ UNCHANGED <<inputs, gate_activation, activation, fwdOut, dHidden, dInput,
                   dHiddenPrev, dWeight, dGate, dResetHiddenPrev, kernel>>

Backward == B_Start \/ B_ActGradU \/ B_ActGradC \/ B_GemmRHP \/ B_GemmWC
            \/ B_ActGradR \/ B_GemmWUR \/ B_HiddenPrev \/ B_GemmHP
            \/ B_Input \/ B_Bias

Next == Forward \/ Backward

Spec == Init /\ [][Next]_vars

----------------------------------------------------------------------------
(* Matrix views used to state the properties. *)

Valid(t) == t \in {identity, sigmoid, tanh, relu}
Rows == 0..(batch_size - 1)
Cols == 0..(frame_size - 1)
Cols2 == 0..(2 * frame_size - 1)
Cols3 == 0..(3 * frame_size - 1)
G(i, j) == Gate[i * 3 * frame_size + j]
DG(i, j) == dGate[i * 3 * frame_size + j]
HP(i, k) == HiddenPrev[i * frame_size + k]
RHP(i, k) == ResetHiddenPrev[i * frame_size + k]
Fresh(buf) == \A p \in DOMAIN buf : buf[p] = fill

ActOf(t, x) ==
    IF t = sigmoid THEN SigmoidFunctor(x)
    ELSE IF t = tanh THEN TanhFunctor(x)
    ELSE IF t = relu THEN ReluFunctor(x) ELSE x

(* Weight read as one row-major frame x 3*frame matrix. *)
RowMajorW(k, j) == Weight[k * 3 * frame_size + j]

(* Weight read as a row-major frame x 2*frame block followed by a        *)
(* row-major frame x frame block.                                         *)
BlockW(k, j) ==
    IF j < 2 * frame_size
    THEN Weight[k * 2 * frame_size + j]
    ELSE Weight[2 * frame_size * frame_size + k * frame_size + (j - 2 * frame_size)]

PreactUR(W(_, _), i, j) ==
    Input[i * 3 * frame_size + j] + Bias[j]
    + SumTo([k \in Cols |-> HP(i, k) * W(k, j)], frame_size)

PreactC(W(_, _), i, j) ==
    Input[i * 3 * frame_size + 2 * frame_size + j] + Bias[2 * frame_size + j]
    + SumTo([k \in Cols |-> RHP(i, k) * W(k, 2 * frame_size + j)], frame_size)

FwdDone == kernel = "forward" /\ pc = "fwd_done"
BwdDone == kernel = "backward" /\ pc = "bwd_done"

----------------------------------------------------------------------------
(* C1: when Forward completes with supported tags, each column slice of   *)
(* Gate holds its own activation applied exactly once to that slice's     *)
(* pre-activation sum: gate_activation for the update and reset slices,   *)
(* activation for the candidate slice.                                    *)
C1_GateSlices ==
    FwdDone =>
        \A i \in Rows : \A j \in Cols :
            /\ G(i, j) = ActOf(gate_activation, PreactUR(BlockW, i, j))
            /\ G(i, frame_size + j)
                  = ActOf(gate_activation, PreactUR(BlockW, i, frame_size + j))
            /\ G(i, 2 * frame_size + j) = ActOf(activation, PreactC(BlockW, i, j))

(* A completed Forward whose candidate value tells the two tags apart,    *)
(* differs from the raw sum and would change if activated a second time.  *)
C1_Witness ==
    /\ FwdDone
    /\ \E i \in Rows : \E j \in Cols :
          LET pre == PreactC(BlockW, i, j)
              c == G(i, 2 * frame_size + j)
          IN  /\ c # pre
              /\ c # ActOf(gate_activation, pre)
              /\ c # ActOf(activation, c)

(* C2: after Forward, Hidden = u * (HiddenPrev - c) + c elementwise with  *)
(* u and c the final update and candidate slices of Gate; with both tags  *)
(* identity u and c are the raw pre-activation sums.                      *)
C2_Hidden ==
    FwdDone =>
        \A i \in Rows : \A j \in Cols :
            LET u == G(i, j)
                c == G(i, 2 * frame_size + j)
            IN  /\ Hidden[i * frame_size + j] = u * (HP(i, j) - c) + c
                /\ (gate_activation = identity /\ activation = identity)
                      => /\ u = PreactUR(BlockW, i, j)
                         /\ c = PreactC(BlockW, i, j)

C2_Witness ==
    /\ FwdDone
    /\ gate_activation = identity /\ activation = identity
    /\ \E i \in Rows : \E j \in Cols :
          /\ G(i, j) # 0 /\ G(i, 2 * frame_size + j) # 0
          /\ HP(i, j) # G(i, 2 * frame_size + j)
          /\ Hidden[i * frame_size + j] # fill

(* The pre-activation sums as they stand in Gate right after each of the  *)
(* two forward multiplies, for a given reading W of the Weight buffer.    *)
PreactIn(W(_, _)) ==
    /\ (kernel = "forward" /\ pc = "f_act_u")
          => \A i \in Rows : \A j \in Cols2 : G(i, j) = PreactUR(W, i, j)
    /\ (kernel = "forward" /\ pc = "f_act_c")
          => \A i \in Rows : \A j \in Cols :
                G(i, 2 * frame_size + j) = PreactC(W, i, j)

(* C3 as stated: the recurrent terms use Weight read as one row-major     *)
(* frame x 3*frame matrix, W[k,j] = flat element k*3f + j.                *)
C3_RowMajor == PreactIn(RowMajorW)

(* C3 amended: the recurrent terms use Weight read as two consecutive     *)
(* row-major blocks, a frame x 2*frame block for the update/reset gates   *)
(* (flat element k*2f + j) followed by a frame x frame block for the      *)
(* candidate (flat element 2*f*f + k*f + j).                              *)
C3_Blocks == PreactIn(BlockW)

(* The candidate multiply is done, frame >= 2, and the two readings of    *)
(* Weight give different sums.                                            *)
C3_Witness ==
    /\ kernel = "forward" /\ pc = "f_act_c"
    /\ frame_size >= 2
    /\ \E i \in Rows : \E j \in Cols :
          PreactC(BlockW, i, j) # PreactC(RowMajorW, i, j)
    /\ \E i \in Rows : \E j \in Cols2 :
          PreactUR(BlockW, i, j) # PreactUR(RowMajorW, i, j)
(* C4: a Forward or Backward invoked with a tag outside {0,1,2,3} never   *)
(* completes normally: it can only be before the dispatch of that tag or  *)
(* in the error state, it is never stuck before the error, and the final  *)
(* result (Hidden; dInput, dHiddenPrev, dWeight, dBias) is never written. *)
C4_UnsupportedTagFatal ==
    /\ (kernel = "forward" /\ ~Valid(gate_activation))
          => pc \in {"f_add_bias", "f_gemm_ur", "f_act_u", "error"}
    /\ (kernel = "forward" /\ ~Valid(activation))
          => pc \in {"f_add_bias", "f_gemm_ur", "f_act_u", "f_act_r",
                     "f_reset_hidden", "f_gemm_c", "f_act_c", "error"}
    /\ (kernel = "backward" /\ ~Valid(gate_activation))
          => pc \in {"b_act_u", "error"}
    /\ (kernel = "backward" /\ ~Valid(activation))
          => pc \in {"b_act_u", "b_act_c", "error"}
    /\ (~Valid(gate_activation) \/ ~Valid(activation))
          => /\ pc # "error" => ENABLED Next
             /\ kernel = "forward" => Fresh(Hidden)
             /\ kernel = "backward"
                   => Fresh(dInput) /\ Fresh(dHiddenPrev) /\ Fresh(dWeight)
                      /\ Fresh(dBias)

(* Backward has thrown on the candidate tag although the gate tag is good *)
(* and the update-gate gradient was already computed.                     *)
C4_Witness ==
    /\ pc = "error" /\ kernel = "backward"
    /\ Valid(gate_activation) /\ ~Valid(activation)
    /\ writes["dGate_u"] = 1

(* Central difference of the loss sum(Hidden) of a recomputed Forward in  *)
(* which the inputs are replaced by x, w, bias.                           *)
Loss(x, w, bias) ==
    LET n == batch_size * frame_size
        h == ForwardRun(batch_size, frame_size, identity, identity, x,
                        HiddenPrev, w, bias, Gate, ResetHiddenPrev, Hidden).Hidden
    IN  SumTo(h, n)

Bump(buf, q, d) == [buf EXCEPT ![q] = @ + d]

(* C5: with both tags identity and dHidden all ones, the analytic         *)
(* gradient at every position of Input, of the Weight buffer and of Bias  *)
(* equals the central difference (L(p+1) - L(p-1)) / 2 of sum(Hidden).    *)
C5_CentralDifference ==
    (BwdDone /\ gate_activation = identity /\ activation = identity
     /\ \A p \in DOMAIN dHidden : dHidden[p] = 1)
    => /\ \A q \in DOMAIN Input :
             2 * dInput[q] = Loss(Bump(Input, q, 1), Weight, Bias)
                             - Loss(Bump(Input, q, -1), Weight, Bias)
       /\ \A q \in DOMAIN Weight :
             2 * dWeight[q] = Loss(Input, Bump(Weight, q, 1), Bias)
                              - Loss(Input, Bump(Weight, q, -1), Bias)
       /\ \A q \in DOMAIN Bias :
             2 * dBias[q] = Loss(Input, Weight, Bump(Bias, q, 1))
                            - Loss(Input, Weight, Bump(Bias, q, -1))

C5_Witness ==
    /\ BwdDone /\ gate_activation = identity /\ activation = identity
    /\ \A p \in DOMAIN dHidden : dHidden[p] = 1
    /\ batch_size >= 2 /\ frame_size >= 2
    /\ \E q \in 0..(2 * frame_size * frame_size - 1) : dWeight[q] # 0
    /\ \E q \in (2 * frame_size * frame_size)..(3 * frame_size * frame_size - 1) :
          dWeight[q] # 0
    /\ \E q \in DOMAIN Input : InSlice(frame_size, frame_size, q) /\ dInput[q] # 0

(* C6: after Backward, dHiddenPrev[i,k] = dResetHiddenPrev[i,k] * r[i,k]  *)
(* + dHidden[i,k] * u[i,k] + sum over j < 2f of dGate[i,j] * W[k,j], W    *)
(* being the frame x 2*frame weight slice of Forward's first multiply.    *)
C6_HiddenPrevGrad ==
    BwdDone =>
        \A i \in Rows : \A k \in Cols :
            dHiddenPrev[i * frame_size + k]
              = dResetHiddenPrev[i * frame_size + k] * G(i, frame_size + k)
                + dHidden[i * frame_size + k] * G(i, k)
                + SumTo([j \in Cols2 |-> DG(i, j) * Weight[k * 2 * frame_size + j]],
                        2 * frame_size)

C6_Witness ==
    /\ BwdDone /\ frame_size >= 2
    /\ \E i \in Rows : \E k \in Cols :
          /\ dResetHiddenPrev[i * frame_size + k] * G(i, frame_size + k) # 0
          /\ dHidden[i * frame_size + k] * G(i, k) # 0
          /\ \E j \in frame_size..(2 * frame_size - 1) :
                DG(i, j) * Weight[k * 2 * frame_size + j] # 0

(* C7: in Backward every dGate slice and dResetHiddenPrev is written      *)
(* exactly once, and before any step that reads it: the candidate slice   *)
(* before dResetHiddenPrev and dWeight's candidate block, dResetHiddenPrev*)
(* before the reset slice, the update and reset slices before dWeight's   *)
(* first block and the accumulation into dHiddenPrev, all three slices    *)
(* before dInput and dBias.                                               *)
C7_WriteOrder ==
    kernel = "backward" =>
        /\ \A r \in {"dGate_u", "dGate_r", "dGate_c", "dResetHiddenPrev"} :
              writes[r] <= 1
        /\ pc \in {"b_gemm_rhp", "b_gemm_wc"} => writes["dGate_c"] = 1
        /\ writes["dResetHiddenPrev"] >= 1 => writes["dGate_c"] = 1
        /\ writes["dWeight_c"] >= 1 => writes["dGate_c"] = 1
        /\ pc = "b_act_r" => writes["dResetHiddenPrev"] = 1
        /\ writes["dGate_r"] >= 1 => writes["dResetHiddenPrev"] = 1
        /\ pc \in {"b_gemm_wur", "b_gemm_hp"}
              => writes["dGate_u"] = 1 /\ writes["dGate_r"] = 1
        /\ (writes["dWeight_ur"] >= 1 \/ writes["dHiddenPrev"] >= 2)
              => writes["dGate_u"] = 1 /\ writes["dGate_r"] = 1
        /\ (pc \in {"b_input", "b_bias"} \/ writes["dInput"] >= 1
            \/ writes["dBias"] >= 1)
              => writes["dGate_u"] = 1 /\ writes["dGate_r"] = 1
                 /\ writes["dGate_c"] = 1

C7_Witness ==
    /\ BwdDone
    /\ \A r \in Regions : writes[r] >= 1
    /\ writes["dHiddenPrev"] = 2

(* C8: after Backward, dInput is the whole gate gradient dGate and dBias  *)
(* is its column sum over the batch.                                      *)
C8_InputBiasGrad ==
    BwdDone =>
        /\ \A i \in Rows : \A j \in Cols3 : dInput[i * 3 * frame_size + j] = DG(i, j)
        /\ \A j \in Cols3 :
              dBias[j] = SumTo([i \in Rows |-> dInput[i * 3 * frame_size + j]],
                               batch_size)

C8_Witness ==
    /\ BwdDone /\ batch_size >= 2
    /\ \E j \in Cols3 : dBias[j] # dInput[j] /\ dBias[j] # 0

(* C9 as stated: in the error state no caller-visible output buffer has   *)
(* been modified.                                                         *)
C9_NothingModified ==
    pc = "error" =>
        /\ kernel = "forward"
              => Fresh(Gate) /\ Fresh(ResetHiddenPrev) /\ Fresh(Hidden)
        /\ kernel = "backward"
              => Fresh(dInput) /\ Fresh(dHiddenPrev) /\ Fresh(dWeight)
                 /\ Fresh(dBias)

(* C9 amended: in the error state Hidden (Forward) and dInput,            *)
(* dHiddenPrev, dWeight, dBias (Backward) hold their pre-call contents,   *)
(* but Forward has already overwritten Gate: with an unsupported          *)
(* gate_activation Gate holds Input + Bias plus the update/reset          *)
(* recurrent term and ResetHiddenPrev is untouched; with only activation  *)
(* unsupported the update and reset slices are activated, ResetHiddenPrev *)
(* is written and the candidate slice holds its pre-activation sum.       *)
C9_AbortAfterGateWritten ==
    pc = "error" =>
        /\ kernel = "backward"
              => Fresh(dInput) /\ Fresh(dHiddenPrev) /\ Fresh(dWeight)
                 /\ Fresh(dBias)
        /\ kernel = "forward" => Fresh(Hidden)
        /\ (kernel = "forward" /\ ~Valid(gate_activation))
              => /\ Fresh(ResetHiddenPrev)
                 /\ \A i \in Rows :
                       /\ \A j \in Cols2 : G(i, j) = PreactUR(BlockW, i, j)
                       /\ \A j \in (2 * frame_size)..(3 * frame_size - 1) :
                             G(i, j) = Input[i * 3 * frame_size + j] + Bias[j]
        /\ (kernel = "forward" /\ Valid(gate_activation))
              => \A i \in Rows : \A j \in Cols :
                    /\ G(i, j) = ActOf(gate_activation, PreactUR(BlockW, i, j))
                    /\ G(i, frame_size + j)
                          = ActOf(gate_activation,
                                  PreactUR(BlockW, i, frame_size + j))
                    /\ RHP(i, j) = G(i, frame_size + j) * HP(i, j)
                    /\ G(i, 2 * frame_size + j) = PreactC(BlockW, i, j)

(* Forward has thrown on the candidate tag after rewriting Gate and       *)
(* ResetHiddenPrev.                                                       *)
C9_Witness ==
    /\ pc = "error" /\ kernel = "forward"
    /\ Valid(gate_activation) /\ ~Valid(activation)
    /\ \A p \in DOMAIN Gate : Gate[p] # fill
    /\ \A p \in DOMAIN ResetHiddenPrev : ResetHiddenPrev[p] # fill
    /\ \E i \in Rows : \E j \in Cols : RHP(i, j) # HP(i, j)

(* C10: the outputs of a completed call do not depend on what the output  *)
(* and working buffers held before the call: a run of the same kernel on  *)
(* the same inputs from any other initial buffer contents ends with the   *)
(* same Gate, ResetHiddenPrev and Hidden, and the same dInput,            *)
(* dHiddenPrev, dWeight, dBias.                                           *)
C10_OutputsFromInputsOnly ==
    /\ FwdDone =>
          \A v \in Garbage :
             LET o == ForwardRun(batch_size, frame_size, gate_activation,
                                 activation, Input, HiddenPrev, Weight, Bias,
                                 Fill(batch_size * 3 * frame_size, v),
                                 Fill(batch_size * frame_size, v),
                                 Fill(batch_size * frame_size, v))
             IN  Gate = o.Gate /\ ResetHiddenPrev = o.ResetHiddenPrev
                 /\ Hidden = o.Hidden
    /\ BwdDone =>
          \A v \in Garbage :
             LET o == BackwardRun(batch_size, frame_size, gate_activation,
                                  activation, HiddenPrev, Weight, Gate,
                                  ResetHiddenPrev, dHidden,
                                  Fill(batch_size * 3 * frame_size, v),
                                  Fill(batch_size * frame_size, v),
                                  Fill(frame_size * 3 * frame_size, v),
                                  Fill(3 * frame_size, v),
                                  Fill(batch_size * 3 * frame_size, v),
                                  Fill(batch_size * frame_size, v))
             IN  dInput = o.dInput /\ dHiddenPrev = o.dHiddenPrev
                 /\ dWeight = o.dWeight /\ dBias = o.dBias

(* A completed Backward with frame >= 2 whose buffers held something else *)
(* than the comparison run's.                                             *)
C10_Witness ==
    /\ BwdDone /\ frame_size >= 2 /\ batch_size >= 2
    /\ \E v \in Garbage : v # fill
    /\ \E q \in DOMAIN dWeight : dWeight[q] # 0
====
